---------------------------- MODULE Spec2Model ----------------------------
(***************************************************************************)
(* A model of the client-sdk device onboarding core:                       *)
(*   - lib/prot/di/msg10.c            the DI.AppStart protocol step        *)
(*   - crypto/openssl/openssl_RSAEncryptRoutines.c   RSA encryption        *)
(*   - hal/epid/epid_sdk_interface.c  the EPID attestation backend         *)
(*   - hal/os/network_if_mbedos.c     the transport layer                  *)
(* Each component has its own specification (SpecProt, SpecRSA, SpecEpid,  *)
(* SpecNet for the connection calls, SpecHdr for header reception)         *)
(* over its own variables; the other components' variables stay put.       *)
(***************************************************************************)
EXTENDS Integers, Sequences, FiniteSets, TLC

VARIABLES
    \* ---- protocol step msg10 and the session driver ----
    tpm,        \* build variant: DEVICE_TPM20_ENABLED defined
    ps_state,   \* ps->state
    pc10,       \* position inside msg10 ("idle" when not running)
    ret10,      \* msg10's local ret
    fail10,     \* the sub-operation of msg10 that failed ("none": none did)
    sdow,       \* calls made on ps->sdow by the current/last msg10 invocation
    mstring,    \* the TPM build's mstring byte array: "NULL", "alloc", "freed"
    pre_state,  \* ps->state when msg10 was entered
    runs10,     \* how often msg10 was entered in this session
    failed,     \* the session was aborted by a failed step
    session,    \* number of the session (restarts)
    \* ---- RSA encryption ----
    evp_md,     \* the function-static evp_md of sdoCryptoRSAEncrypt
    rsa,        \* the last RSA call: its arguments, result and heap
    \* ---- EPID backend ----
    build,      \* build variant of epid_sdk_interface.c
    g,          \* the process-wide (static) EPID state
    epid,       \* the last EPID call: its arguments, result and pre-state
    \* ---- transport layer ----
    rest,       \* the shared REST context (getRESTContext)
    sock,       \* the connection handle's socket and TLS session
    ncall,      \* the last transport call: its arguments and result
    rb          \* the running sdoConRecvMsgBody call (its locals)

protVars == <<tpm, ps_state, pc10, ret10, fail10, sdow, mstring, pre_state, runs10,
              failed, session>>
rsaVars  == <<evp_md, rsa>>
epidVars == <<build, g, epid>>
netVars  == <<rest, sock, ncall, rb>>
vars     == <<protVars, rsaVars, epidVars, netVars>>

(***************************************************************************)
(* Bounds of the model.                                                    *)
(***************************************************************************)
MaxSessions == 3
MaxKeyLen == 2
MaxSigRl == 1
MaxCloses == 2

(***************************************************************************)
(*                    P R O T O C O L   S T E P   msg10                    *)
(***************************************************************************)

\* The declared linear order of the device-initialize states.  msg10.c names
\* only the successor SDO_STATE_DI_SET_CREDENTIALS; the order itself lives in
\* the session driver.
StateOrder ==
    <<"SDO_STATE_DI_APP_START", "SDO_STATE_DI_SET_CREDENTIALS",
      "SDO_STATE_DI_SET_HMAC", "SDO_STATE_DI_DONE">>

States == {StateOrder[i] : i \in 1..Len(StateOrder)}

Rank(s) == CHOOSE i \in 1..Len(StateOrder) : StateOrder[i] = s

InitialState == StateOrder[1]

TerminalState == StateOrder[Len(StateOrder)]

\* Return values of ps_get_m_string: 0 is success, anything else a failure.
MStringRets == {0, -1, 1}

\* The state msg10 assigns on success.
msg10_NextState_Repeat == "SDO_STATE_DI_APP_START"

msg10_NextState == "SDO_STATE_DI_SET_CREDENTIALS"

\* What ps_get_m_string / sdoWriteString add to the open object: the m-string.
MStringToken == <<"String">>

\* msg10.c:35-37  sdoWNextBlock, sdoWBeginObject, sdoWriteTag("m")
msg10_StartTokens_NoTag ==
    << <<"NextBlock", "SDO_DI_APP_START">>, <<"BeginObject">> >>

msg10_StartTokens ==
    << <<"NextBlock", "SDO_DI_APP_START">>, <<"BeginObject">>, <<"Tag", "m">> >>

\* The driver enters msg10 for the session's current state.
Driver_Dispatch10 ==
    /\ pc10 = "idle"
    /\ ~failed
    /\ ps_state = InitialState
    /\ pc10' = "entry"
    /\ pre_state' = ps_state
    /\ runs10' = runs10 + 1
    /\ sdow' = <<>>
    /\ mstring' = "NULL"
    /\ fail10' = "none"
    /\ UNCHANGED <<tpm, ps_state, ret10, failed, session>>
    /\ UNCHANGED <<rsaVars, epidVars, netVars>>

\* int ret = -1; then the three writer calls that open the message.
msg10_Start_RetZero ==
    /\ pc10 = "entry"
    /\ ret10' = 0
    /\ sdow' = sdow \o msg10_StartTokens
    /\ pc10' = IF tpm THEN "alloc" ELSE "get_m_string"
    /\ UNCHANGED <<tpm, ps_state, fail10, mstring, pre_state, runs10, failed,
                   session>>
    /\ UNCHANGED <<rsaVars, epidVars, netVars>>

msg10_Start ==
    /\ pc10 = "entry"
    /\ ret10' = -1
    /\ sdow' = sdow \o msg10_StartTokens
    /\ pc10' = IF tpm THEN "alloc" ELSE "get_m_string"
    /\ UNCHANGED <<tpm, ps_state, fail10, mstring, pre_state, runs10, failed,
                   session>>
    /\ UNCHANGED <<rsaVars, epidVars, netVars>>

\* #if !defined(DEVICE_TPM20_ENABLED): ret = ps_get_m_string(ps); if (ret) goto err;
msg10_GetMString ==
    /\ pc10 = "get_m_string"
    /\ \E r \in MStringRets :
        /\ ret10' = r
        /\ IF r # 0
             THEN /\ pc10' = "err"
                  /\ sdow' = sdow
                  /\ fail10' = "ps_get_m_string"
             ELSE /\ pc10' = "end_object"
                  /\ sdow' = Append(sdow, MStringToken)
                  /\ fail10' = fail10
    /\ UNCHANGED <<tpm, ps_state, mstring, pre_state, runs10, failed, session>>
    /\ UNCHANGED <<rsaVars, epidVars, netVars>>

\* #else: mstring = sdoByteArrayAlloc(mstring_size + 1); if (NULL == mstring) goto err;
msg10_AllocMString ==
    /\ pc10 = "alloc"
    /\ \E ok \in BOOLEAN :
        IF ok THEN /\ mstring' = "alloc"
                   /\ pc10' = "read"
              ELSE /\ mstring' = "NULL"
                   /\ pc10' = "err"
    /\ fail10' = IF pc10' = "err" THEN "sdoByteArrayAlloc" ELSE fail10
    /\ UNCHANGED <<tpm, ps_state, ret10, sdow, pre_state, runs10, failed, session>>
    /\ UNCHANGED <<rsaVars, epidVars, netVars>>

\* if (0 != read_buffer_from_file(...)) { sdoByteArrayFree(mstring); goto err; }
msg10_ReadMString ==
    /\ pc10 = "read"
    /\ \E ok \in BOOLEAN :
        IF ok THEN /\ mstring' = mstring
                   /\ pc10' = "write"
              ELSE /\ mstring' = "freed"
                   /\ pc10' = "err"
    /\ fail10' = IF pc10' = "err" THEN "read_buffer_from_file" ELSE fail10
    /\ UNCHANGED <<tpm, ps_state, ret10, sdow, pre_state, runs10, failed, session>>
    /\ UNCHANGED <<rsaVars, epidVars, netVars>>

\* sdoWriteString(&ps->sdow, mstring->bytes); sdoByteArrayFree(mstring);
msg10_WriteString ==
    /\ pc10 = "write"
    /\ sdow' = Append(sdow, MStringToken)
    /\ mstring' = "freed"
    /\ pc10' = "end_object"
    /\ UNCHANGED <<tpm, ps_state, ret10, fail10, pre_state, runs10, failed,
                   session>>
    /\ UNCHANGED <<rsaVars, epidVars, netVars>>

\* sdoWEndObject(&ps->sdow);
msg10_EndObject ==
    /\ pc10 = "end_object"
    /\ sdow' = Append(sdow, <<"EndObject">>)
    /\ pc10' = "set_state"
    /\ UNCHANGED <<tpm, ps_state, ret10, fail10, mstring, pre_state, runs10,
                   failed, session>>
    /\ UNCHANGED <<rsaVars, epidVars, netVars>>

\* ps->state = SDO_STATE_DI_SET_CREDENTIALS; ret = 0;   (falls through to err:)
msg10_SetState ==
    /\ pc10 = "set_state"
    /\ ps_state' = msg10_NextState
    /\ ret10' = 0
    /\ pc10' = "err"
    /\ UNCHANGED <<tpm, fail10, sdow, mstring, pre_state, runs10, failed,
                   session>>
    /\ UNCHANGED <<rsaVars, epidVars, netVars>>

\* err: return ret;   -- the driver aborts the session on a non-zero result
msg10_Return ==
    /\ pc10 = "err"
    /\ pc10' = "idle"
    /\ failed' = (ret10 # 0)
    /\ UNCHANGED <<tpm, ps_state, ret10, fail10, sdow, mstring, pre_state,
                   runs10, session>>
    /\ UNCHANGED <<rsaVars, epidVars, netVars>>

\* Any later step of the sequence: on success the declared successor, on
\* failure the session is aborted with the state unchanged.
Driver_OtherStep ==
    /\ pc10 = "idle"
    /\ ~failed
    /\ ps_state # InitialState
    /\ ps_state # TerminalState
    /\ \E ok \in BOOLEAN :
        IF ok THEN /\ ps_state' = StateOrder[Rank(ps_state) + 1]
                   /\ failed' = FALSE
              ELSE /\ ps_state' = ps_state
                   /\ failed' = TRUE
    /\ UNCHANGED <<tpm, pc10, ret10, fail10, sdow, mstring, pre_state, runs10,
                   session>>
    /\ UNCHANGED <<rsaVars, epidVars, netVars>>

\* The caller restarts the whole session after an abort or after the end.
Driver_Restart ==
    /\ pc10 = "idle"
    /\ failed \/ ps_state = TerminalState
    /\ session < MaxSessions
    /\ session' = session + 1
    /\ ps_state' = InitialState
    /\ failed' = FALSE
    /\ runs10' = 0
    /\ UNCHANGED <<tpm, pc10, ret10, fail10, sdow, mstring, pre_state>>
    /\ UNCHANGED <<rsaVars, epidVars, netVars>>

InitProt ==
    /\ tpm \in BOOLEAN
    /\ ps_state = InitialState
    /\ pc10 = "idle"
    /\ ret10 = -1
    /\ fail10 = "none"
    /\ sdow = <<>>
    /\ mstring = "NULL"
    /\ pre_state = InitialState
    /\ runs10 = 0
    /\ failed = FALSE
    /\ session = 1

NextProt ==
    \/ Driver_Dispatch10
    \/ msg10_Start
    \/ msg10_GetMString
    \/ msg10_AllocMString
    \/ msg10_ReadMString
    \/ msg10_WriteString
    \/ msg10_EndObject
    \/ msg10_SetState
    \/ msg10_Return
    \/ Driver_OtherStep
    \/ Driver_Restart


\* ---- claims about msg10 ----

\* msg10 is about to return ret (it stands at the label err).
AtReturn10 == pc10 = "err"

\* C1: if a sub-operation of msg10 failed (ps_get_m_string, or in the TPM
\* build the m-string allocation or the file read), msg10 returns a non-zero
\* value and ps->state is what it was when msg10 was entered.
C1_FailClosed ==
    (AtReturn10 /\ fail10 # "none") => (ret10 # 0 /\ ps_state = pre_state)

\* C1 witness: msg10 returns after a failed file read of the TPM build.
C1_Witness ==
    AtReturn10 /\ tpm /\ fail10 = "read_buffer_from_file"

\* The one message msg10 writes: a block of type SDO_DI_APP_START holding
\* one object with the tag "m" and its string.
AppStartMessage ==
    << <<"NextBlock", "SDO_DI_APP_START">>, <<"BeginObject">>, <<"Tag", "m">>,
       <<"String">>, <<"EndObject">> >>

\* C2: whenever msg10 returns 0, ps->state is SDO_STATE_DI_SET_CREDENTIALS and
\* exactly one block of type SDO_DI_APP_START with one object tagged "m" was
\* begun and ended in the writer; while msg10 runs, the state is assigned
\* only after the object was ended.
C2_SuccessMessage ==
    /\ (AtReturn10 /\ ret10 = 0) =>
          /\ ps_state = "SDO_STATE_DI_SET_CREDENTIALS"
          /\ sdow = AppStartMessage
    /\ (pc10 # "idle" /\ ps_state # pre_state) =>
          /\ Len(sdow) > 0
          /\ sdow[Len(sdow)] = <<"EndObject">>

\* C2 witness: msg10 returns 0.
C2_Witness == AtReturn10 /\ ret10 = 0 /\ ps_state # pre_state

BNOrder == <<"n", "d", "e", "p", "q", "dmp1", "dmq1", "iqmp">>

BNs == {BNOrder[i] : i \in 1..Len(BNOrder)}

\* Every object a call can acquire.
Objs == BNs \cup {"rsa", "pkey", "ctx", "out"}

\* No object allocated: all pointers NULL.
EmptyHeap ==
    [st |-> [o \in Objs |-> "none"],  \* none (NULL) | live | freed | freed2
     ref |-> 0,                       \* reference count of the RSA object
     owned |-> {},                    \* big numbers handed over to the RSA object
     link |-> FALSE]                  \* the EVP_PKEY holds a reference to the RSA

\* free() of one object: NULL is ignored, a second free is recorded.
FreeObj(h, o) ==
    CASE h.st[o] = "none" -> h
      [] h.st[o] = "live" -> [h EXCEPT !.st[o] = "freed"]
      [] OTHER -> [h EXCEPT !.st[o] = "freed2"]

RECURSIVE FreeAll(_, _)
FreeAll(h, os) ==
    IF os = {} THEN h
    ELSE LET o == CHOOSE x \in os : TRUE
         IN FreeAll(FreeObj(h, o), os \ {o})

\* RSA_free: drops one reference; the last one frees the RSA object and,
\* deeply, every big number it owns.
RSA_free(h) ==
    CASE h.st["rsa"] = "none" -> h
      [] h.st["rsa"] = "live" /\ h.ref > 1 -> [h EXCEPT !.ref = h.ref - 1]
      [] h.st["rsa"] = "live" ->
            FreeAll([h EXCEPT !.ref = 0, !.st["rsa"] = "freed"], h.owned)
      [] OTHER -> [h EXCEPT !.st["rsa"] = "freed2"]

\* EVP_PKEY_free: frees the EVP_PKEY and drops its reference to the RSA.
EVP_PKEY_free(h) ==
    CASE h.st["pkey"] = "none" -> h
      [] h.st["pkey"] = "live" ->
            LET h1 == [h EXCEPT !.st["pkey"] = "freed", !.link = FALSE]
            IN IF h.link THEN RSA_free(h1) ELSE h1
      [] OTHER -> [h EXCEPT !.st["pkey"] = "freed2"]

\* BN_bin2bn: the value of a big-endian byte string.
RECURSIVE BN_bin2bn(_)
BN_bin2bn(bytes) ==
    IF bytes = <<>> THEN 0
    ELSE BN_bin2bn(SubSeq(bytes, 1, Len(bytes) - 1)) * 256 + bytes[Len(bytes)]

\* BN_num_bytes: the number of significant bytes of a value.
RECURSIVE BN_num_bytes(_)
BN_num_bytes(v) == IF v = 0 THEN 0 ELSE 1 + BN_num_bytes(v \div 256)

\* RSA_size(rkey): the byte size of the key's modulus.
RSA_size_RawLength(key1) == Len(key1)

RSA_size(key1) == BN_num_bytes(BN_bin2bn(key1))

\* The places where convert2pkey can fail, in program order.
ConvertFailPoints ==
    {"RSA_new", "EVP_PKEY_new"}
    \cup {"BN_new_" \o BNOrder[i] : i \in 1..Len(BNOrder)}
    \cup {"BN_bin2bn_n", "BN_bin2bn_e", "RSA_set0_key", "RSA_set0_factors",
          "RSA_set0_crt_params", "EVP_PKEY_set1_RSA"}

\* The heap after BN_new succeeded for the first k big numbers.
AllocBNs(h, k) ==
    [h EXCEPT !.st = [o \in Objs |->
        IF \E i \in 1..k : BNOrder[i] = o THEN "live" ELSE h.st[o]]]

\* Index of the big number whose BN_new fails at fail point fp (0: none).
BNFailIndex(fp) ==
    IF \E i \in 1..Len(BNOrder) : fp = "BN_new_" \o BNOrder[i]
    THEN CHOOSE i \in 1..Len(BNOrder) : fp = "BN_new_" \o BNOrder[i]
    ELSE 0

\* convert2pkey(&pkey, &rkey, key1, len1, key2, len2), called with pkey and
\* rkey NULL (both callers pass fresh NULL pointers).  fp is the library
\* call that fails, "none" when all succeed.  Result: [ret, h].
convert2pkey(key1, key2, fp) ==
    IF key1 = "NULL" \/ key2 = "NULL" THEN [ret |-> -1, h |-> EmptyHeap]
    ELSE
    LET h1 == IF fp = "RSA_new" THEN EmptyHeap
              ELSE [EmptyHeap EXCEPT !.st["rsa"] = "live", !.ref = 1]
        h2 == [h1 EXCEPT !.st["pkey"] = "live"]
        h3 == AllocBNs(h2, Len(BNOrder))
        errFree == FreeAll(h3, BNs)       \* err: BN_clear_free of all eight
    IN  CASE fp = "EVP_PKEY_new" -> [ret |-> -1, h |-> h1]
          [] fp = "RSA_new" -> [ret |-> -1, h |-> h2]
          [] BNFailIndex(fp) > 0 ->
                [ret |-> -1, h |-> AllocBNs(h2, BNFailIndex(fp) - 1)]
          [] fp \in {"BN_bin2bn_n", "BN_bin2bn_e", "RSA_set0_key"} ->
                [ret |-> -1, h |-> errFree]
          [] fp = "RSA_set0_factors" ->
                [ret |-> -1, h |-> [errFree EXCEPT !.owned = {"n", "e", "d"}]]
          [] fp = "RSA_set0_crt_params" ->
                [ret |-> -1,
                 h |-> [errFree EXCEPT !.owned = {"n", "e", "d", "p", "q"}]]
          [] fp = "EVP_PKEY_set1_RSA" ->
                [ret |-> -1, h |-> [errFree EXCEPT !.owned = BNs]]
          [] OTHER ->
                [ret |-> 0,
                 h |-> [h3 EXCEPT !.owned = BNs, !.ref = 2, !.link = TRUE]]


\* A key parameter as the callers pass it: a pointer and the bytes behind it
\* (keyParamNLength is the number of bytes).
NullKey == [ptr |-> "NULL", bytes |-> <<>>]

Key(bytes) == [ptr |-> "buf", bytes |-> bytes]

KeyMissing(k) == k.ptr = "NULL" \/ Len(k.bytes) = 0

\* The content of the caller's cipherText buffer.
Unwritten == [kind |-> "unwritten", md |-> "none", n |-> 0, api |-> "none"]

Zeroed == [kind |-> "zeroed", md |-> "none", n |-> 0, api |-> "none"]

\* The ciphertext the backend produces: it depends on the digest, the key and
\* the primitive used.
Ciphertext(md, key1, api) ==
    [kind |-> "ciphertext", md |-> md, n |-> BN_bin2bn(key1.bytes), api |-> api]

\* The null pointer as a copy source.
NullSrc == [kind |-> "NULL", md |-> "none", n |-> 0, api |-> "none"]

\* memcpy_s(dest, dmax, src, dmax) of the safe C library: a zero dmax is
\* rejected, a NULL src zeroes dest and is rejected.
memcpy_s(dest, dmax, src) ==
    CASE dmax = 0 -> [ret |-> "ESZEROL", dest |-> dest]
      [] src = NullSrc -> [ret |-> "ESNULLP", dest |-> Zeroed]
      [] OTHER -> [ret |-> "EOK", dest |-> src]

\* The result of one call.
RSAOut(ret, ct, h, enc, md, used) ==
    [ret |-> ret, cipherText |-> ct, h |-> h, encrypted |-> enc,
     evp_md |-> md, used |-> used]

\* if (cipherCalLength > cipherTextLength) return -1;
BufferTooSmall_OffByOne(cipherCalLength, cipherTextLength) ==
    cipherCalLength > cipherTextLength + 1

BufferTooSmall(cipherCalLength, cipherTextLength) ==
    cipherCalLength > cipherTextLength

\* error: the releases at the end of sdoCryptoRSAEncrypt.
Encrypt_Cleanup(h) ==
    RSA_free(FreeObj(EVP_PKEY_free(FreeObj(h, "ctx")), "out"))

\* The query return: RSA_free(rkey); EVP_PKEY_free(pkey);
Query_Release(h) == EVP_PKEY_free(RSA_free(h))

\* The digest the SHA-256/SHA-384 cases hand to the padding API.
SelectMd(hashType, md0) ==
    IF hashType = "SHA384" THEN "SHA384"
    ELSE IF md0 = "NULL" THEN "SHA256" ELSE md0

\* switch (hashType) and the copy to cipherText.  be is the backend call that
\* fails, "ok" when all succeed.
Encrypt_Switch(a, h, len, be, md0) ==
    CASE a.hashType = "SHA1" ->
            IF be = "encrypt"
            THEN RSAOut(-1, Unwritten, Encrypt_Cleanup(h), TRUE, md0, "SHA1")
            ELSE \* the ciphertext is in the local encrypt[]; out is still NULL
                 LET m == memcpy_s(Unwritten, len, NullSrc)
                 IN RSAOut(IF m.ret # "EOK" THEN -1 ELSE 0, m.dest,
                           Encrypt_Cleanup(h), TRUE, md0, "SHA1")
      [] a.hashType \in {"SHA256", "SHA384"} ->
            LET md == SelectMd(a.hashType, md0)
                hc == [h EXCEPT !.st["ctx"] = "live"]
                ho == [hc EXCEPT !.st["out"] = "live"]
            IN CASE be = "ctx_new" ->
                      RSAOut(0, Unwritten, Encrypt_Cleanup(h), FALSE, md, "none")
                 [] be = "encrypt_init" ->
                      RSAOut(0, Unwritten, Encrypt_Cleanup(hc), FALSE, md, "none")
                 [] be = "encrypt_len" ->
                      RSAOut(-1, Unwritten, Encrypt_Cleanup(hc), FALSE, md, md)
                 [] be = "malloc" ->
                      RSAOut(-1, Unwritten, Encrypt_Cleanup(hc), FALSE, md, md)
                 [] be = "encrypt" ->
                      RSAOut(-1, Unwritten, Encrypt_Cleanup(ho), TRUE, md, md)
                 [] OTHER ->
                      LET m == memcpy_s(Unwritten, len,
                                        Ciphertext(md, a.key1, "EVP_PKEY_encrypt"))
                      IN RSAOut(IF m.ret # "EOK" THEN -1 ELSE 0, m.dest,
                                Encrypt_Cleanup(ho), TRUE, md, md)
      [] OTHER -> RSAOut(-1, Unwritten, Encrypt_Cleanup(h), FALSE, md0, "none")

\* sdoCryptoRSAEncrypt.  a: the arguments, fp: the failing call of
\* convert2pkey, be: the failing backend call, md0: the static evp_md.
sdoCryptoRSAEncrypt(a, fp, be, md0) ==
    IF \/ ~a.keyTypeOk
       \/ ~a.clearOk
       \/ KeyMissing(a.key1)
       \/ KeyMissing(a.key2)
    THEN RSAOut(-1, Unwritten, EmptyHeap, FALSE, md0, "none")
    ELSE
    LET c == convert2pkey(a.key1.ptr, a.key2.ptr, fp)
        len == IF c.h.st["rsa"] # "none" THEN RSA_size(a.key1.bytes) ELSE 0
    IN  IF c.ret # 0
        THEN RSAOut(-1, Unwritten, c.h, FALSE, md0, "none")
        ELSE IF a.cipherNull
        THEN RSAOut(len, Unwritten, Query_Release(c.h), FALSE, md0, "none")
        ELSE IF BufferTooSmall(len, a.cipherTextLength)
        THEN RSAOut(-1, Unwritten, c.h, FALSE, md0, "none")
        ELSE Encrypt_Switch(a, c.h, len, be, md0)

\* sdoCryptoRSALen.
sdoCryptoRSALen(a, fp, md0) ==
    IF ~KeyMissing(a.key1) /\ ~KeyMissing(a.key2)
    THEN RSAOut(0, Unwritten, EmptyHeap, FALSE, md0, "none")
    ELSE
    LET c == convert2pkey(a.key1.ptr, a.key2.ptr, fp)
        len == IF c.ret = 0 /\ c.h.st["rsa"] # "none"
               THEN RSA_size(a.key1.bytes) ELSE 0
    IN  RSAOut(len, Unwritten, EVP_PKEY_free(RSA_free(c.h)), FALSE, md0, "none")


\* ---- the calls the model makes ----

HashTypes == {"SHA1", "SHA256", "SHA384", "OTHER"}

RECURSIVE ByteSeqs(_)
ByteSeqs(k) ==
    IF k = 0 THEN {<<>>}
    ELSE ByteSeqs(k - 1)
         \cup {Append(b, x) : b \in {q \in ByteSeqs(k - 1) : Len(q) = k - 1},
                              x \in {0, 1}}

\* Moduli: NULL, empty, and every byte string over {0, 1} up to MaxKeyLen
\* (leading zero bytes included).
ModInputs == {NullKey} \cup {Key(b) : b \in ByteSeqs(MaxKeyLen)}

\* Exponents: NULL, empty, 65537.
ExpInputs == {NullKey, Key(<<>>), Key(<<1, 0, 1>>)}

EncryptArgs ==
    [keyTypeOk : BOOLEAN, clearOk : BOOLEAN, cipherNull : BOOLEAN,
     cipherTextLength : 0..MaxKeyLen, hashType : HashTypes,
     key1 : ModInputs, key2 : ExpInputs]

LenArgs ==
    [keyTypeOk : {TRUE}, clearOk : {TRUE}, cipherNull : {TRUE},
     cipherTextLength : {0}, hashType : {"OTHER"},
     key1 : ModInputs, key2 : ExpInputs]

\* The failures the model injects, only where the call gets that far.
EncryptFp(a) ==
    IF a.keyTypeOk /\ a.clearOk /\ ~KeyMissing(a.key1) /\ ~KeyMissing(a.key2)
    THEN ConvertFailPoints \cup {"none"} ELSE {"n/a"}

EncryptBe(a, fp) ==
    IF fp = "none" /\ ~a.cipherNull
       /\ ~BufferTooSmall(RSA_size(a.key1.bytes), a.cipherTextLength)
    THEN CASE a.hashType = "SHA1" -> {"ok", "encrypt"}
           [] a.hashType \in {"SHA256", "SHA384"} ->
                {"ok", "ctx_new", "encrypt_init", "encrypt_len", "malloc", "encrypt"}
           [] OTHER -> {"n/a"}
    ELSE {"n/a"}

LenFp(a) ==
    IF (KeyMissing(a.key1) \/ KeyMissing(a.key2))
       /\ a.key1.ptr # "NULL" /\ a.key2.ptr # "NULL"
    THEN ConvertFailPoints \cup {"none"} ELSE {"n/a"}

RSACall(op, a, fp, be, r) ==
    [op |-> op, a |-> a, fp |-> fp, be |-> be, md0 |-> evp_md,
     ret |-> r.ret, cipherText |-> r.cipherText, h |-> r.h,
     encrypted |-> r.encrypted, used |-> r.used]

\* No call in flight.
NoRSACall ==
    [op |-> "none",
     a |-> [keyTypeOk |-> TRUE, clearOk |-> TRUE, cipherNull |-> TRUE,
            cipherTextLength |-> 0, hashType |-> "OTHER",
            key1 |-> NullKey, key2 |-> NullKey],
     fp |-> "n/a", be |-> "n/a", md0 |-> "NULL", ret |-> 0,
     cipherText |-> Unwritten, h |-> EmptyHeap, encrypted |-> FALSE,
     used |-> "none"]

RSAEncrypt ==
    /\ rsa.op = "none"
    /\ \E a \in EncryptArgs : \E fp \in EncryptFp(a) : \E be \in EncryptBe(a, fp) :
        LET r == sdoCryptoRSAEncrypt(a, fp, be, evp_md)
        IN /\ rsa' = RSACall("sdoCryptoRSAEncrypt", a, fp, be, r)
           /\ evp_md' = r.evp_md
    /\ UNCHANGED <<protVars, epidVars, netVars>>

RSALen ==
    /\ rsa.op = "none"
    /\ \E a \in LenArgs : \E fp \in LenFp(a) :
        LET r == sdoCryptoRSALen(a, fp, evp_md)
        IN /\ rsa' = RSACall("sdoCryptoRSALen", a, fp, "n/a", r)
           /\ evp_md' = r.evp_md
    /\ UNCHANGED <<protVars, epidVars, netVars>>

\* The caller takes the result; the static evp_md stays.
RSAReturn ==
    /\ rsa.op # "none"
    /\ rsa' = NoRSACall
    /\ UNCHANGED evp_md
    /\ UNCHANGED <<protVars, epidVars, netVars>>

InitRSA ==
    /\ evp_md = "NULL"
    /\ rsa = NoRSACall

NextRSA ==
    \/ RSAEncrypt
    \/ RSALen
    \/ RSAReturn


\* ---- claims about the RSA routines ----

\* sdoCryptoRSAEncrypt was called with a valid key type, clear text, and a
\* non-empty modulus and exponent.
EncryptCalledValid ==
    /\ rsa.op = "sdoCryptoRSAEncrypt"
    /\ rsa.a.keyTypeOk
    /\ rsa.a.clearOk
    /\ ~KeyMissing(rsa.a.key1)
    /\ ~KeyMissing(rsa.a.key2)

\* The modulus size in bytes: the bytes left after the leading zero bytes.
RECURSIVE StripLeadingZeros(_)
StripLeadingZeros(bytes) ==
    IF bytes = <<>> THEN <<>>
    ELSE IF Head(bytes) = 0 THEN StripLeadingZeros(Tail(bytes))
    ELSE bytes

ModulusSize(key) == Len(StripLeadingZeros(key.bytes))

\* C4: for every non-empty modulus and exponent, sdoCryptoRSAEncrypt called
\* with cipherText == NULL and otherwise valid arguments returns, when the key
\* was materialized, exactly the modulus size in bytes (and -1 when it could
\* not be), performs no encryption and writes no output.
C4_QueryReturnsModulusSize ==
    (EncryptCalledValid /\ rsa.a.cipherNull) =>
        /\ rsa.fp = "none" => rsa.ret = ModulusSize(rsa.a.key1)
        /\ rsa.fp # "none" => rsa.ret = -1
        /\ ~rsa.encrypted
        /\ rsa.cipherText = Unwritten

\* C4 witness: a length query for a modulus with a leading zero byte.
C4_Witness ==
    /\ EncryptCalledValid
    /\ rsa.a.cipherNull
    /\ rsa.fp = "none"
    /\ rsa.a.key1.bytes = <<0, 1>>
    /\ rsa.ret = 1

\* C5: for every valid key and every supported hash type (SHA-1, SHA-256,
\* SHA-384), when the backend succeeds, a call with a cipherText buffer whose
\* capacity is the length the NULL-buffer query returns, returns 0 and
\* cipherText holds the ciphertext the backend produced for that call.
C5_EncryptFillsBuffer ==
    (/\ EncryptCalledValid
     /\ ~rsa.a.cipherNull
     /\ rsa.a.hashType \in {"SHA1", "SHA256", "SHA384"}
     /\ ModulusSize(rsa.a.key1) > 0
     /\ rsa.a.cipherTextLength = ModulusSize(rsa.a.key1)
     /\ rsa.fp = "none"
     /\ rsa.be = "ok") =>
        /\ rsa.ret = 0
        /\ rsa.cipherText.kind = "ciphertext"
        /\ rsa.cipherText.n = BN_bin2bn(rsa.a.key1.bytes)

\* C6: a call with a non-NULL cipherText whose cipherTextLength is smaller
\* than the key's modulus size returns -1 and does not write to cipherText.
C6_BufferTooSmall ==
    (/\ EncryptCalledValid
     /\ ~rsa.a.cipherNull
     /\ rsa.a.cipherTextLength < ModulusSize(rsa.a.key1)) =>
        /\ rsa.ret = -1
        /\ rsa.cipherText = Unwritten
        /\ ~rsa.encrypted

\* C6 witness: the key was materialized and the buffer is one byte short.
C6_Witness ==
    /\ EncryptCalledValid
    /\ ~rsa.a.cipherNull
    /\ rsa.fp = "none"
    /\ rsa.a.cipherTextLength + 1 = ModulusSize(rsa.a.key1)
    /\ rsa.ret = -1

\* C7: on every exit path of sdoCryptoRSAEncrypt and sdoCryptoRSALen, every
\* key object acquired during the call (the RSA object, the EVP_PKEY, the
\* big numbers of convert2pkey) has been released when the function returns.
C7_AllReleased ==
    rsa.op # "none" =>
        \A o \in BNs \cup {"rsa", "pkey"} : rsa.h.st[o] # "live"

\* C20: when the modulus or the exponent is NULL or has length 0,
\* sdoCryptoRSAEncrypt returns -1, sdoCryptoRSALen returns 0, and neither
\* has built a key object (no big number, RSA object or EVP_PKEY was ever
\* allocated during the call).
C20_MissingKeyRejected ==
    (rsa.op # "none" /\ (KeyMissing(rsa.a.key1) \/ KeyMissing(rsa.a.key2))) =>
        /\ rsa.op = "sdoCryptoRSAEncrypt" => rsa.ret = -1
        /\ rsa.op = "sdoCryptoRSALen" => rsa.ret = 0
        /\ \A o \in BNs \cup {"rsa", "pkey"} : rsa.h.st[o] = "none"

\* C21: for every non-NULL, non-empty modulus and exponent, sdoCryptoRSALen
\* returns the modulus size in bytes, the value sdoCryptoRSAEncrypt returns
\* for the same key with cipherText == NULL; it returns 0 only when
\* materializing the key failed.
C21_LenIsModulusSize ==
    (/\ rsa.op = "sdoCryptoRSALen"
     /\ ~KeyMissing(rsa.a.key1)
     /\ ~KeyMissing(rsa.a.key2)) =>
        LET q == sdoCryptoRSAEncrypt(rsa.a, "none", "n/a", rsa.md0)
        IN /\ rsa.fp \in {"none", "n/a"} =>
                 /\ rsa.ret = ModulusSize(rsa.a.key1)
                 /\ rsa.ret = q.ret
           /\ rsa.ret = 0 =>
                 \/ rsa.fp \notin {"none", "n/a"}
                 \/ ModulusSize(rsa.a.key1) = 0

\* C25: the digest a call of sdoCryptoRSAEncrypt sets for OAEP and MGF1
\* depends only on that call's hashType: SHA-256 for SDO_PK_HASH_SHA256 and
\* SHA-384 for SDO_PK_HASH_SHA384, whatever earlier calls used.
C25_DigestFromHashType ==
    (/\ rsa.op = "sdoCryptoRSAEncrypt"
     /\ rsa.a.hashType \in {"SHA256", "SHA384"}
     /\ rsa.used # "none") =>
        rsa.used = rsa.a.hashType

\* C31: on every path through convert2pkey and its callers no big number,
\* RSA object or EVP_PKEY is released more than once: a big number owned by
\* the RSA object is released only with it, never by convert2pkey's error
\* path as well, and the RSA object is freed at most once.
C31_NoDoubleFree ==
    rsa.op # "none" =>
        /\ \A o \in BNs \cup {"rsa", "pkey"} : rsa.h.st[o] # "freed2"
        /\ \A o \in rsa.h.owned :
              rsa.h.st[o] = "freed" => rsa.h.st["rsa"] = "freed"

(***************************************************************************)
(*                        E P I D   B A C K E N D                          *)
(***************************************************************************)

\* Build variants of epid_sdk_interface.c:
\*   SDK        neither EPID_R6 nor EPID_TINY
\*   R6         EPID_R6 or EPID_TINY, not TARGET_OS_FREERTOS
\*   R6_RTOS    EPID_R6 and TARGET_OS_FREERTOS
\*   TINY_RTOS  EPID_TINY and TARGET_OS_FREERTOS
Builds == {"SDK", "R6", "R6_RTOS", "TINY_RTOS"}

IsR6 == build # "SDK"

IsRtos == build \in {"R6_RTOS", "TINY_RTOS"}

\* A private key value; the zero key is the static initial value {0}.
ZeroKey == [kind |-> "zero", id |-> 0, gpk |-> 0]

FullKey(id) == [kind |-> "full", id |-> id, gpk |-> 0]

\* EpidDecompressPrivKey(&g_groupPublicKey, compressed, &g_priv_key)
DecompressedKey_Raw(id, gpk) == [kind |-> "full", id |-> id, gpk |-> 0]

DecompressedKey(id, gpk) == [kind |-> "decompressed", id |-> id, gpk |-> gpk]

\* A precomputation blob: the keys it was derived from.
NoPrecomp == [written |-> FALSE, gpk |-> 0, priv |-> ZeroKey]

Precomp(gpk, priv) == [written |-> TRUE, gpk |-> gpk, priv |-> priv]

\* What a call handed to EpidProvisionKey as precomputation blob, if it got there.
NoProv == [called |-> FALSE, blob |-> NoPrecomp]

Prov(blob) == [called |-> TRUE, blob |-> blob]

\* The static variables of the file after program start (lines 33-50).
InitG ==
    [initialized |-> FALSE,    \* g_epidInitialized
     cacert |-> 0,             \* g_cacert
     gpk |-> 0,                \* g_groupPublicKey
     priv |-> ZeroKey,         \* g_priv_key
     member_ctx |-> "NULL",    \* g_member_ctx
     precomp |-> NoPrecomp,    \* g_member_precomp
     avail |-> FALSE,          \* is_precompute_available
     leaked |-> FALSE]         \* a member context was lost without being deleted

\* EpidMemberDelete(&g_member_ctx): frees the context and NULLs the pointer.
EpidMemberDelete(g0) == [g0 EXCEPT !.member_ctx = "NULL"]

\* EPID_Close (lines 332-350).
EPID_Close_KeepsKey(g0) ==
    IF ~g0.initialized THEN g0
    ELSE [EpidMemberDelete(g0) EXCEPT
            !.initialized = FALSE,
            !.avail = FALSE]

EPID_Close(g0) ==
    IF ~g0.initialized THEN g0
    ELSE [EpidMemberDelete(g0) EXCEPT
            !.initialized = FALSE,
            !.priv = ZeroKey,
            !.avail = FALSE]

\* The calls of epid_r6_init that can fail, in program order.
R6FailPoints ==
    {"EpidMemberGetSize", "EpidAlloc", "EpidMemberInit", "EpidMemberSetHashAlg",
     "EpidProvisionKey", "EpidMemberStartup"}

\* g_member_ctx = EpidAlloc(member_size): a context still referenced by the
\* pointer is lost when the pointer is overwritten.
EpidAlloc(g0, ok) ==
    [g0 EXCEPT !.member_ctx = IF ok THEN "ctx" ELSE "NULL",
               !.leaked = @ \/ g0.member_ctx = "ctx"]

\* epid_r6_init (lines 107-171).  fp: the call that fails ("none": all
\* succeed).  Result: the new statics, the status, whether a member context
\* was created, the precomputation blob handed to EpidProvisionKey, and
\* whether EPID_Close was run.
epid_r6_init(g0, fp) ==
    LET ga == EpidAlloc(g0, TRUE)
        blob == IF g0.avail THEN g0.precomp ELSE NoPrecomp
        writes == build = "R6_RTOS" /\ ~ga.avail
        gw == IF writes
              THEN [ga EXCEPT !.precomp = Precomp(ga.gpk, ga.priv), !.avail = TRUE]
              ELSE ga
        R(gg, sts, created, prov) ==
            [g |-> gg, sts |-> sts, created |-> created, prov |-> prov,
             closed |-> sts # "kEpidNoErr"]    \* err2: EPID_Close();
    IN  CASE fp = "EpidMemberGetSize" ->
                R(EPID_Close(g0), "kEpidErr", FALSE, NoProv)
          [] fp = "EpidAlloc" ->
                R(EPID_Close(EpidAlloc(g0, FALSE)), "kEpidNoMemErr", FALSE, NoProv)
          [] fp \in {"EpidMemberInit", "EpidMemberSetHashAlg", "EpidProvisionKey"} ->
                R(EPID_Close(ga), "kEpidErr", TRUE,
                  IF fp = "EpidProvisionKey" THEN Prov(blob) ELSE NoProv)
          [] fp = "EpidMemberStartup" ->
                R(EPID_Close(ga), "kEpidErr", TRUE, Prov(blob))
          [] fp = "EpidMemberWritePrecomp" /\ writes ->
                R(EPID_Close(ga), "kEpidErr", TRUE, Prov(blob))
          [] OTHER ->
                R(gw, "kEpidNoErr", TRUE, Prov(blob))


\* EPID_Init (lines 203-323).  a: the arguments
\*   cacert  "NULL" | "ok" (cacert_size = sizeof(EpidCaCertificate)) | "badsize"
\*   gpk     0 (NULL or length 0) | 1, 2 (a key of the right size) | -1 (a
\*           length above sizeof(GroupPubKey): memcpy_s zeroes dest and fails)
\*   priv    "NULL" | "full" | "compressed" | "badsize"
\* o: the outcomes of the calls it makes
\*   decomp  EpidDecompressPrivKey succeeds
\*   fp      the failing call of epid_r6_init (FREERTOS builds)
\*   rnd     the result of random_init (other builds)
\* Result: the new statics, the return value, the blob handed to
\* provisioning, and whether EPID_Close was run.
EPID_Init(a, o, g0) ==
    LET R(gg, ret, prov, closed) ==
            [g |-> gg, ret |-> ret, prov |-> prov, closed |-> closed]
        g1 == IF a.cacert = "ok" THEN [g0 EXCEPT !.cacert = 1] ELSE g0
        g2 == CASE a.gpk = 0 -> g1
                [] a.gpk = -1 -> [g1 EXCEPT !.gpk = 0]
                [] OTHER -> [g1 EXCEPT !.gpk = a.gpk]
        g3 == CASE a.priv = "full" -> [g2 EXCEPT !.priv = FullKey(1)]
                [] a.priv = "compressed" ->
                      [g2 EXCEPT !.priv = DecompressedKey(1, g2.gpk)]
                [] OTHER -> g2
        r6 == epid_r6_init(g3, o.fp)
    IN  CASE a.cacert = "badsize" -> R(g0, -1, NoProv, FALSE)
          [] a.gpk = -1 -> R(g2, -1, NoProv, FALSE)
          [] a.priv = "compressed" /\ ~o.decomp -> R(g2, -1, NoProv, FALSE)
          [] a.priv = "badsize" -> R(g2, -1, NoProv, FALSE)
          [] IsRtos /\ r6.sts # "kEpidNoErr" -> R(r6.g, -1, r6.prov, TRUE)
          [] IsRtos ->
                R([EpidMemberDelete(r6.g) EXCEPT !.initialized = TRUE], 0, r6.prov,
                  FALSE)
          [] o.rnd # 0 -> R(g3, o.rnd, NoProv, FALSE)
          [] OTHER ->
                R([g3 EXCEPT !.initialized = TRUE], 0, NoProv, FALSE)

\* Sizes of the EPID signature: sizeof(EpidSignature) - sizeof(NrProof) and
\* sizeof(NrProof), in units of sizeof(NrProof).
kMinSigSize == 1

NrProofSize == 1

\* EpidGetSigSize(sig_rl): grows with the number n2 of entries of the list.
EpidGetSigSize(sigrl) ==
    IF sigrl.ptr = "NULL" THEN kMinSigSize
    ELSE kMinSigSize + sigrl.n2 * NrProofSize

NullSig == [null |-> TRUE, byteSz |-> 0]

Sig(size) == [null |-> FALSE, byteSz |-> size]

\* The result of EPID_Sign: statics, signature object, and what the call did.
SignOut(gg, sig, created, sigAlloc, prov, closed) ==
    [g |-> gg, sig |-> sig, created |-> created, sigAlloc |-> sigAlloc,
     prov |-> prov, closed |-> closed]

\* if (!g_epidInitialized) goto err1 / return NULL;
NotInitialized_Unchecked(g0) == FALSE

NotInitialized(g0) == ~g0.initialized

\* The calls of EPID_Sign itself that can fail, in program order.  EpidSign
\* fails with kEpidErr ("EpidSign") or reports the member as revoked in the
\* signature revocation list ("kEpidSigRevokedInSigRl").
SignFailPointsR6 ==
    {"EpidMemberSetSigRl", "sig_alloc", "EpidSign", "kEpidSigRevokedInSigRl",
     "bits_alloc"}

SignFailPointsSDK ==
    {"EpidMemberCreate", "EpidMemberWritePrecomp", "EpidMemberSetHashAlg",
     "sig_alloc", "EpidSign", "kEpidSigRevokedInSigRl", "bits_alloc"}

\* EPID_Sign of the EPID_R6 / EPID_TINY builds (lines 374-463).  a: the
\* arguments
\*   dataOk     data != NULL and data_len != 0
\*   gpk        0 (NULL or length 0) | 1, 2
\*   sigrl      [ptr, n2, hasMember]: the list, its entry count, and whether
\*              it revokes this member
\*   sizeNZ     SigRlSize != 0
\* fp: the failing call, of epid_r6_init or of EPID_Sign ("none": all succeed).
EPID_Sign_R6(a, fp, g0) ==
    LET g1 == IF IsRtos THEN g0 ELSE [g0 EXCEPT !.gpk = a.gpk]
        r6 == epid_r6_init(g1, fp)
        \* err2: EpidMemberDelete(&g_member_ctx);
        err2 == EpidMemberDelete(r6.g)
        sig_size == EpidGetSigSize(a.sigrl)
    IN  CASE ~a.dataOk -> SignOut(g0, NullSig, FALSE, FALSE, NoProv, FALSE)
          [] NotInitialized(g0) -> SignOut(g0, NullSig, FALSE, FALSE, NoProv, FALSE)
          [] ~IsRtos /\ a.gpk = 0 -> SignOut(g0, NullSig, FALSE, FALSE, NoProv, FALSE)
          [] r6.sts # "kEpidNoErr" ->
                SignOut(r6.g, NullSig, r6.created, FALSE, r6.prov, TRUE)
          [] a.sizeNZ /\ (fp = "EpidMemberSetSigRl" \/ a.sigrl.ptr = "NULL") ->
                SignOut(err2, NullSig, TRUE, FALSE, r6.prov, FALSE)
          [] fp = "sig_alloc" -> SignOut(err2, NullSig, TRUE, FALSE, r6.prov, FALSE)
          [] fp \in {"EpidSign", "kEpidSigRevokedInSigRl"} ->
                SignOut(err2, NullSig, TRUE, TRUE, r6.prov, FALSE)
          [] fp = "bits_alloc" -> SignOut(err2, NullSig, TRUE, TRUE, r6.prov, FALSE)
          [] OTHER -> SignOut(err2, Sig(sig_size), TRUE, TRUE, r6.prov, FALSE)

\* A local member context that is not deleted before the return is lost.
LoseMember(g0) == [g0 EXCEPT !.leaked = TRUE]

\* EPID_Sign of the other builds (lines 466-566).
EPID_Sign_SDK(a, fp, g0) ==
    LET gp == [g0 EXCEPT !.precomp = Precomp(a.gpk, g0.priv)]
        sig_size == EpidGetSigSize(a.sigrl)
    IN  CASE ~a.dataOk -> SignOut(g0, NullSig, FALSE, FALSE, NoProv, FALSE)
          [] NotInitialized(g0) -> SignOut(g0, NullSig, FALSE, FALSE, NoProv, FALSE)
          [] fp = "EpidMemberCreate" \/ a.gpk = 0 ->
                SignOut(g0, NullSig, FALSE, FALSE, NoProv, FALSE)
          [] fp = "EpidMemberWritePrecomp" ->
                SignOut(LoseMember(g0), NullSig, TRUE, FALSE, NoProv, FALSE)
          [] fp \in {"EpidMemberSetHashAlg", "sig_alloc"} ->
                SignOut(LoseMember(gp), NullSig, TRUE, FALSE, NoProv, FALSE)
          [] fp \in {"EpidSign", "kEpidSigRevokedInSigRl", "bits_alloc"} ->
                SignOut(LoseMember(gp), NullSig, TRUE, TRUE, NoProv, FALSE)
          [] OTHER -> SignOut(gp, Sig(sig_size), TRUE, TRUE, NoProv, FALSE)

EPID_Sign(a, fp, g0) ==
    IF IsR6 THEN EPID_Sign_R6(a, fp, g0) ELSE EPID_Sign_SDK(a, fp, g0)


\* ---- the calls the model makes ----

NullSigRl == [ptr |-> "NULL", n2 |-> 0, hasMember |-> FALSE]

\* Signature revocation lists: their entry count, and whether an entry
\* revokes this member.
SigRls ==
    {NullSigRl}
    \cup {l \in [ptr : {"list"}, n2 : 0..MaxSigRl, hasMember : BOOLEAN] :
            l.hasMember => l.n2 >= 1}

EArgs(cacert, gpk, priv, dataOk, sigrl, sizeNZ) ==
    [cacert |-> cacert, gpk |-> gpk, priv |-> priv, dataOk |-> dataOk,
     sigrl |-> sigrl, sizeNZ |-> sizeNZ]

NoArgs == EArgs("NULL", 0, "NULL", FALSE, NullSigRl, FALSE)

\* Arguments of EPID_Init; what the call does not read is left out.
InitArgs ==
    {EArgs("badsize", 0, "NULL", FALSE, NullSigRl, FALSE)}
    \cup {EArgs(c, -1, "NULL", FALSE, NullSigRl, FALSE) : c \in {"NULL", "ok"}}
    \cup {EArgs(c, k, p, FALSE, NullSigRl, FALSE) :
            c \in {"NULL", "ok"}, k \in {0, 1, 2},
            p \in {"NULL", "full", "compressed", "badsize"}}

InitReachesSetup(a, o) ==
    /\ a.cacert # "badsize"
    /\ a.gpk # -1
    /\ a.priv # "badsize"
    /\ a.priv = "compressed" => o.decomp

R6Fps(g0) ==
    R6FailPoints \cup {"none"}
    \cup (IF build = "R6_RTOS" /\ ~g0.avail THEN {"EpidMemberWritePrecomp"} ELSE {})

InitOutcomes(a) ==
    {o \in [decomp : BOOLEAN, fp : R6Fps(g), rnd : {0, -1}] :
        /\ (~o.decomp) => (a.cacert # "badsize" /\ a.gpk # -1 /\ a.priv = "compressed")
        /\ (o.fp # "none") => (IsRtos /\ InitReachesSetup(a, o))
        /\ (o.rnd # 0) => (~IsRtos /\ InitReachesSetup(a, o))}

\* Arguments of EPID_Sign.
SignArgs ==
    {NoArgs}
    \cup {EArgs("NULL", k, "NULL", TRUE, l, z) :
            k \in (IF IsRtos THEN {0} ELSE {0, 1, 2}), l \in SigRls,
            z \in BOOLEAN}

SignReachesSetup(a) ==
    /\ a.dataOk
    /\ g.initialized
    /\ IsRtos \/ a.gpk # 0

SignFps(a) ==
    IF ~SignReachesSetup(a) THEN {"none"}
    ELSE IF IsR6
    THEN R6Fps(g)
         \cup (SignFailPointsR6 \ {"EpidMemberSetSigRl", "kEpidSigRevokedInSigRl"})
         \cup (IF a.sizeNZ /\ a.sigrl.ptr # "NULL" THEN {"EpidMemberSetSigRl"} ELSE {})
         \cup (IF a.sizeNZ /\ a.sigrl.hasMember
               THEN {"kEpidSigRevokedInSigRl"} ELSE {})
    ELSE (SignFailPointsSDK \ {"kEpidSigRevokedInSigRl"}) \cup {"none"}
         \cup (IF a.sizeNZ /\ a.sigrl.hasMember
               THEN {"kEpidSigRevokedInSigRl"} ELSE {})

\* The record of a call: what was called with what, the statics before it,
\* and what came back.  armedPre / armed: whether, before / after the call,
\* some EPID_Init has returned 0 with no EPID_Close run since.
ECall(op, a, fp, ret, sig, created, sigAlloc, prov, armed) ==
    [op |-> op, a |-> a, fp |-> fp, pre |-> g, ret |-> ret, sig |-> sig,
     created |-> created, sigAlloc |-> sigAlloc, prov |-> prov,
     armedPre |-> epid.armed, armed |-> armed]

\* No call in flight.
NoECall ==
    [op |-> "none", a |-> NoArgs, fp |-> "none", pre |-> InitG,
     ret |-> 0, sig |-> NullSig, created |-> FALSE,
     sigAlloc |-> FALSE, prov |-> NoProv, armedPre |-> FALSE,
     armed |-> FALSE]

Call_EPID_Init ==
    /\ epid.op = "none"
    /\ \E a \in InitArgs : \E o \in InitOutcomes(a) :
        LET r == EPID_Init(a, o, g)
        IN /\ g' = r.g
           /\ epid' = ECall("EPID_Init", a,
                            IF o.fp # "none" THEN o.fp
                            ELSE IF ~o.decomp THEN "EpidDecompressPrivKey"
                            ELSE IF o.rnd # 0 THEN "random_init" ELSE "none",
                            r.ret, NullSig, FALSE, FALSE, r.prov,
                            IF r.ret = 0 THEN TRUE
                            ELSE IF r.closed THEN FALSE ELSE epid.armed)
           /\ UNCHANGED build
    /\ UNCHANGED <<protVars, rsaVars, netVars>>

Call_EPID_Sign ==
    /\ epid.op = "none"
    /\ \E a \in SignArgs : \E fp \in SignFps(a) :
        LET r == EPID_Sign(a, fp, g)
        IN /\ g' = r.g
           /\ epid' = ECall("EPID_Sign", a, fp, 0, r.sig, r.created, r.sigAlloc,
                            r.prov, IF r.closed THEN FALSE ELSE epid.armed)
           /\ UNCHANGED build
    /\ UNCHANGED <<protVars, rsaVars, netVars>>

Call_EPID_Close ==
    /\ epid.op = "none"
    /\ g' = EPID_Close(g)
    /\ epid' = ECall("EPID_Close", NoArgs, "none", 0, NullSig, FALSE, FALSE,
                     NoProv, FALSE)
    /\ UNCHANGED build
    /\ UNCHANGED <<protVars, rsaVars, netVars>>

\* The caller takes the result; the statics stay.
EPID_Return ==
    /\ epid.op # "none"
    /\ epid' = [NoECall EXCEPT !.armed = epid.armed, !.armedPre = epid.armed]
    /\ UNCHANGED <<build, g>>
    /\ UNCHANGED <<protVars, rsaVars, netVars>>

InitEpid ==
    /\ build \in Builds
    /\ g = InitG
    /\ epid = NoECall

NextEpid ==
    \/ Call_EPID_Init
    \/ Call_EPID_Sign
    \/ Call_EPID_Close
    \/ EPID_Return

\* ---- claims about the EPID backend ----

\* C8: EPID_Sign returns a signature only if some earlier EPID_Init returned
\* 0 and no EPID_Close has run since; otherwise it returns NULL without
\* creating a member context or allocating a signature.
C8_SignNeedsInit ==
    epid.op = "EPID_Sign" =>
        /\ ~epid.sig.null => epid.armedPre
        /\ ~epid.armedPre =>
              /\ epid.sig.null
              /\ ~epid.created
              /\ ~epid.sigAlloc

\* C8 witness: EPID_Sign with valid data after an EPID_Init that stored a
\* group public key, with no successful initialization in force.
C8_Witness ==
    /\ epid.op = "EPID_Sign"
    /\ epid.a.dataOk
    /\ epid.a.gpk # 0
    /\ epid.pre.gpk # 0
    /\ ~epid.armedPre
    /\ epid.sig.null

\* C9: when the backend is initialized and the sign primitive reports the
\* member as revoked in the revocation list, EPID_Sign still returns a
\* non-NULL signature object.
C9_RevokedStillSigned ==
    (/\ epid.op = "EPID_Sign"
     /\ epid.pre.initialized
     /\ epid.a.dataOk
     /\ epid.fp = "kEpidSigRevokedInSigRl") =>
        ~epid.sig.null

\* C10: EPID_Close when not initialized changes no static; when initialized
\* it clears the initialized flag, releases the member context (the handle
\* is NULL) and zeroes the private key; a second EPID_Close right after
\* leaves the state as the first left it.
C10_CloseIdempotent ==
    epid.op = "EPID_Close" =>
        /\ ~epid.pre.initialized => g = epid.pre
        /\ epid.pre.initialized =>
              /\ ~g.initialized
              /\ g.member_ctx = "NULL"
              /\ g.priv = ZeroKey
        /\ EPID_Close(g) = g

\* C10 witness: EPID_Close of an initialized backend holding a private key.
C10_Witness ==
    /\ epid.op = "EPID_Close"
    /\ epid.pre.initialized
    /\ epid.pre.priv # ZeroKey
    /\ ~g.initialized

\* C11: when EPID_Init or EPID_Sign returns, no member context created during
\* the call is still allocated: the process-wide handle is NULL and the call
\* has lost no context (the per-call context of EPID_Sign included).
C11_NoContextLeft ==
    epid.op \in {"EPID_Init", "EPID_Sign"} =>
        /\ g.member_ctx = "NULL"
        /\ g.leaked => epid.pre.leaked

\* EPID_Init was called and got as far as the private key (lines 259-295).
InitReadsPrivateKey ==
    /\ epid.op = "EPID_Init"
    /\ epid.a.cacert # "badsize"
    /\ epid.a.gpk # -1

\* The failure path of epid_r6_init ran EPID_Close on an initialized backend,
\* which clears the stored private key again (lines 169, 346).
InitWipedKey == IsRtos /\ epid.ret # 0 /\ epid.pre.initialized

AppliedSigRl ==
    IF IsR6 /\ ~epid.a.sizeNZ THEN NullSigRl ELSE epid.a.sigrl

\* C23: every signature object returned by EPID_Sign has byteSz equal to the
\* signature size of the revocation list that was applied to the signing
\* operation of that call, and that size does not decrease when the list
\* has more entries; in every build, also when a list pointer is passed
\* with SigRlSize 0.
C23_SigSizeOfAppliedList ==
    (epid.op = "EPID_Sign" /\ ~epid.sig.null) =>
        /\ epid.sig.byteSz = EpidGetSigSize(AppliedSigRl)
        /\ \A l \in SigRls :
              l.n2 <= AppliedSigRl.n2 => EpidGetSigSize(l) <= epid.sig.byteSz

\* C24: in the FREERTOS builds a precomputation blob is handed to
\* EpidProvisionKey only if it was derived from the group public key and the
\* private key that are stored at that moment, and while the
\* precomputation-available flag is set the stored blob belongs to the
\* stored keys (re-provisioning with other keys clears the flag until a new
\* blob has been written).
C24_PrecompMatchesKeys ==
    IsRtos =>
        /\ (epid.op # "none" /\ epid.prov.called /\ epid.prov.blob.written) =>
              /\ epid.prov.blob.gpk = g.gpk
              /\ g.initialized => epid.prov.blob.priv = g.priv
        /\ g.avail =>
              /\ g.precomp.written
              /\ g.precomp.gpk = g.gpk
              /\ g.precomp.priv = g.priv

\* C29: every EPID_Init that returns a failure leaves the process-wide
\* attestation state (initialized flag, CA certificate, group public key,
\* private key, precomputation flag) exactly as it was before the call.
C29_FailedInitChangesNothing ==
    (epid.op = "EPID_Init" /\ epid.ret # 0) =>
        /\ g.initialized = epid.pre.initialized
        /\ g.cacert = epid.pre.cacert
        /\ g.gpk = epid.pre.gpk
        /\ g.priv = epid.pre.priv
        /\ g.avail = epid.pre.avail

\* C30: in every build EPID_Sign, whether it succeeds or fails, leaves the
\* initialized flag and the stored private key unchanged, so that a failed
\* EPID_Sign on an initialized backend leaves it initialized.
C30_SignKeepsBackend ==
    epid.op = "EPID_Sign" =>
        /\ g.initialized = epid.pre.initialized
        /\ g.priv = epid.pre.priv

(***************************************************************************)
(*             T R A N S P O R T   network_if_mbedos.c                     *)
(***************************************************************************)

\* Size in bytes of the REST header buffers hdr, tmp and restHdr (scaled
\* down), and the longest body the model sends or receives.
REST_MAX_MSGHDR_SIZE == 8

MaxBody == 3

\* Limit of strnlen_s on the constructed header (sdoConSendMessage line 366).
SDO_MAX_STR_SIZE == REST_MAX_MSGHDR_SIZE

\* ---- bytes and C strings ----

NUL == "NUL"
CR == "CR"
LF == "LF"

DigitChars == <<"0", "1", "2", "3", "4", "5", "6", "7", "8", "9">>

IsDigit(c) == \E i \in 1..Len(DigitChars) : DigitChars[i] = c

DigitVal(c) == (CHOOSE i \in 1..Len(DigitChars) : DigitChars[i] = c) - 1

\* The string a buffer holds: its bytes before the first NUL.
RECURSIVE CStr(_)
CStr(b) ==
    IF b = <<>> \/ Head(b) = NUL THEN <<>>
    ELSE <<Head(b)>> \o CStr(Tail(b))

strnlen_s(b, smax) == IF Len(CStr(b)) < smax THEN Len(CStr(b)) ELSE smax

\* strncat_s(dest, dmax, src, slen): appends at most slen characters of src;
\* fails (and empties dest) when the result and its NUL do not fit in dmax.
strncat_s(dest, dmax, src, slen) ==
    LET s == CStr(src)
        add == SubSeq(s, 1, IF slen < Len(s) THEN slen ELSE Len(s))
    IN  IF Len(dest) + Len(add) + 1 > dmax
        THEN [ok |-> FALSE, dest |-> <<>>]
        ELSE [ok |-> TRUE, dest |-> dest \o add]

strcat_s(dest, dmax, src) == strncat_s(dest, dmax, src, Len(CStr(src)))

\* ---- readUntilNewLine (lines 35-75) ----

\* if (sz < size) out[sz++] = c;
StoreChar(out, size, c) == IF Len(out) < size THEN Append(out, c) ELSE out

\* remove \n and \r and don't process invalid string (lines 67-73)
StripNewLine(out, size) ==
    IF Len(out) < size /\ Len(out) >= 1
    THEN LET o1 == SubSeq(out, 1, Len(out) - 1)
         IN  IF Len(o1) >= 1 /\ o1[Len(o1)] = CR
             THEN SubSeq(o1, 1, Len(o1) - 1)
             ELSE o1
    ELSE out

\* The for (;;) loop: one single-byte read per round.  The stream holds the
\* bytes the peer delivers; once it is used up the read returns eof (<= 0).
\* size is the buffer size less one (--size).  Result: whether a line was
\* read, the buffer's bytes, the stream position, and the number of bytes
\* of out that were written (the terminating NUL included).
RECURSIVE ReadLoop(_, _, _, _, _)
ReadLoop(stream, pos, eof, out, size) ==
    LET n == IF pos <= Len(stream) THEN 1 ELSE eof
    IN  IF n <= 0
        THEN [ok |-> FALSE, out |-> out, pos |-> pos, used |-> Len(out)]
        ELSE LET c == stream[pos]
                 o2 == StoreChar(out, size, c)
             IN  IF c = LF
                 THEN [ok |-> TRUE, out |-> StripNewLine(o2, size),
                       pos |-> pos + 1, used |-> Len(o2) + 1]
                 ELSE ReadLoop(stream, pos + 1, eof, o2, size)

\* A variant that takes one byte more than the line from the stream.
readUntilNewLine_ReadAhead(stream, pos, eof, size) ==
    LET r == ReadLoop(stream, pos, eof, <<>>, size - 1)
    IN  IF r.ok THEN [r EXCEPT !.pos = @ + 1] ELSE r

readUntilNewLine(stream, pos, eof, size) ==
    IF size = 0
    THEN [ok |-> FALSE, out |-> <<>>, pos |-> pos, used |-> 0]
    ELSE ReadLoop(stream, pos, eof, <<>>, size - 1)

\* ---- the REST layer (rest_interface) ----

RestCtx(v, t, l) == [protVer |-> v, msgType |-> t, contentLength |-> l]

\* The context after initRESTContext.
InitRest == RestCtx(0, 0, 0)

\* The first byte of the line that separates header and body: the line is
\* empty once its terminator is stripped, so its first byte is the NUL.
getRESTHdrBodySeparator == NUL

\* Decimal digits of a number.
RECURSIVE Digits(_)
Digits(n) ==
    IF n < 10 THEN <<DigitChars[n + 1]>>
    ELSE Digits(n \div 10) \o <<DigitChars[(n % 10) + 1]>>

IsNumber(f) == Len(f) >= 1 /\ \A i \in 1..Len(f) : IsDigit(f[i])

RECURSIVE ParseNumber(_)
ParseNumber(f) ==
    IF f = <<>> THEN 0
    ELSE 10 * ParseNumber(SubSeq(f, 1, Len(f) - 1)) + DigitVal(f[Len(f)])

\* The pieces of a text between occurrences of a separator byte.
RECURSIVE Split(_, _)
Split(text, sep) ==
    IF \A i \in 1..Len(text) : text[i] # sep THEN <<text>>
    ELSE LET k == CHOOSE i \in 1..Len(text) :
                    text[i] = sep /\ \A j \in 1..(i - 1) : text[j] # sep
         IN  <<SubSeq(text, 1, k - 1)>> \o Split(SubSeq(text, k + 1, Len(text)), sep)

\* constructRESTHeader(rest, buf, size): the header announces protocol
\* version, message type and content length on one line, and ends with the
\* separator line; it fails when the text and its NUL do not fit.
constructRESTHeader(r, size) ==
    LET text == Digits(r.protVer) \o <<"/">> \o Digits(r.msgType) \o <<"/">>
                \o Digits(r.contentLength) \o <<LF, LF>>
    IN  IF Len(text) + 1 > size
        THEN [ok |-> FALSE, hdr |-> <<>>]
        ELSE [ok |-> TRUE, hdr |-> text]

\* getRESTContentLength(hdr, hdrlen, &msglen): parses the first header line;
\* on success the version and type are recorded in the REST context and the
\* content length is stored in *msglen.
getRESTContentLength(hdr, hdrlen, r) ==
    LET lines == Split(SubSeq(hdr, 1, hdrlen), LF)
        f == Split(lines[1], "/")
        ok == /\ Len(lines) >= 2
              /\ Len(f) = 3
              /\ \A i \in 1..3 : IsNumber(f[i])
    IN  IF ok
        THEN [ok |-> TRUE, msglen |-> ParseNumber(f[3]),
              rest |-> RestCtx(ParseNumber(f[1]), ParseNumber(f[2]),
                               ParseNumber(f[3]))]
        ELSE [ok |-> FALSE, msglen |-> 0, rest |-> r]

\* ---- sdoConRecvMsgHeader (lines 221-285) ----

\* accumulate header content, append new line (lines 249-260)
RecvHdr_Accumulate_NoNewLine(hdr, tmp) ==
    strncat_s(hdr, REST_MAX_MSGHDR_SIZE, tmp, strnlen_s(tmp, REST_MAX_MSGHDR_SIZE))

RecvHdr_Accumulate(hdr, tmp) ==
    LET c1 == strncat_s(hdr, REST_MAX_MSGHDR_SIZE, tmp,
                        strnlen_s(tmp, REST_MAX_MSGHDR_SIZE))
    IN  IF ~c1.ok THEN c1
        ELSE strcat_s(c1.dest, REST_MAX_MSGHDR_SIZE, <<LF>>)

\* if (!readUntilNewLine(...)) goto err;
LineFailed_Ignored(r) == FALSE

LineFailed(r) == ~r.ok

\* tmp[0] of the zeroed line buffer
FirstByte(tmp) == IF tmp = <<>> THEN NUL ELSE tmp[1]

\* The for (;;) loop reading the REST header (lines 234-261).  Result: how
\* the loop ended, hdr, the stream position, the numbers of bytes of tmp
\* and hdr written, and whether a read returned a value <= 0.
RECURSIVE RecvHdr_Loop(_, _, _, _, _, _)
RecvHdr_Loop(stream, pos, eof, hdr, tmpUsed, hdrUsed) ==
    LET r == readUntilNewLine(stream, pos, eof, REST_MAX_MSGHDR_SIZE)
        tu == IF r.used > tmpUsed THEN r.used ELSE tmpUsed
        acc == RecvHdr_Accumulate(hdr, r.out)
        hu == IF acc.ok /\ Len(acc.dest) + 1 > hdrUsed
              THEN Len(acc.dest) + 1 ELSE hdrUsed
        R(end) == [end |-> end, hdr |-> hdr, pos |-> r.pos, tmpUsed |-> tu,
                   hdrUsed |-> hdrUsed, readFailed |-> ~r.ok]
        next == RecvHdr_Loop(stream, r.pos, eof, acc.dest, tu, hu)
    IN  IF LineFailed(r) THEN R("IoFailure")
        ELSE IF FirstByte(r.out) = getRESTHdrBodySeparator THEN R("separator")
        ELSE IF ~acc.ok THEN R("HeaderTooLarge")
        ELSE [next EXCEPT !.readFailed = @ \/ ~r.ok]

\* An output parameter: whether the call stored through it, and what.
NotStored == [stored |-> FALSE, val |-> 0]

Stored(v) == [stored |-> TRUE, val |-> v]

RecvHdrOut(ret, end, pv, mt, ml, r, l) ==
    [ret |-> ret, end |-> end, protocolVersion |-> pv, messageType |-> mt,
     msglen |-> ml, rest |-> r, hdr |-> l.hdr, pos |-> l.pos,
     tmpUsed |-> l.tmpUsed, hdrUsed |-> l.hdrUsed, readFailed |-> l.readFailed]

\* sdoConRecvMsgHeader.  argsOk: the three output pointers are non-NULL.
sdoConRecvMsgHeader(stream, eof, argsOk, r0) ==
    LET l == RecvHdr_Loop(stream, 1, eof, <<>>, 0, 1)
        none == [end |-> "args", hdr |-> <<>>, pos |-> 1, tmpUsed |-> 0,
                 hdrUsed |-> 0, readFailed |-> FALSE]
        p == getRESTContentLength(l.hdr, strnlen_s(l.hdr, REST_MAX_MSGHDR_SIZE), r0)
    IN  IF ~argsOk
        THEN RecvHdrOut(-1, "args", NotStored, NotStored, NotStored, r0, none)
        ELSE IF l.end # "separator"
        THEN RecvHdrOut(-1, l.end, NotStored, NotStored, NotStored, r0, l)
        ELSE IF ~p.ok
        THEN RecvHdrOut(-1, "MalformedHeader", NotStored, NotStored, NotStored,
                        r0, l)
        ELSE RecvHdrOut(0, "ok", Stored(p.rest.protVer), Stored(p.rest.msgType),
                        Stored(p.msglen), p.rest, l)

\* ---- sdoConRecvMsgBody (lines 296-323), one loop round per step ----

\* No sdoConRecvMsgBody call is running.
NoRecvBody ==
    [pc |-> "idle", bufOk |-> FALSE, length |-> 0, n |-> 0, sz |-> 0, bufp |-> 0, buf |-> <<>>,
     consumed |-> 0, ret |-> -1, chunks |-> 0, overAsked |-> FALSE,
     sawNonPositive |-> FALSE, readAfter |-> FALSE]

\* bufp = bufp + n;
RecvBody_Advance_Stuck(bufp, n) == bufp

RecvBody_Advance(bufp, n) == bufp + n

\* The buffer after a read stored n bytes at offset bufp: the bytes of the
\* stream are numbered in arrival order, 0 marks a byte never written.
StoreBytes(buf, bufp, consumed, n) ==
    [i \in 1..Len(buf) |->
        IF i > bufp /\ i <= bufp + n THEN consumed + (i - bufp) ELSE buf[i]]

\* int n = 0; int32_t ret = -1; bufp = buf; sz = length;
\* if (!buf || !length) goto err;
RecvBody_Call ==
    /\ rb.pc = "idle"
    /\ ncall.op = "none"
    /\ sock.phase = "connected"
    /\ \E bufOk \in BOOLEAN : \E length \in 0..MaxBody :
        /\ rb' = [NoRecvBody EXCEPT
                    !.pc = IF bufOk /\ length # 0 THEN "loop" ELSE "done",
                    !.bufOk = bufOk,
                    !.length = length,
                    !.sz = length,
                    !.buf = [i \in 1..length |-> 0]]
    /\ UNCHANGED <<rest, sock, ncall>>
    /\ UNCHANGED <<protVars, rsaVars, epidVars>>

\* One round of the do-while loop: the read returns -1, 0, or a number of
\* bytes up to the number asked for.
RecvBody_Read ==
    /\ rb.pc = "loop"
    /\ \E n \in -1..rb.sz :
        LET bufp == RecvBody_Advance(rb.bufp, rb.n)
            sz == rb.sz - n
        IN  rb' = [rb EXCEPT
                    !.bufp = bufp,
                    !.n = n,
                    !.sz = sz,
                    !.buf = IF n > 0 THEN StoreBytes(rb.buf, bufp, rb.consumed, n)
                            ELSE rb.buf,
                    !.consumed = IF n > 0 THEN rb.consumed + n ELSE rb.consumed,
                    !.chunks = IF n > 0 THEN rb.chunks + 1 ELSE rb.chunks,
                    !.overAsked = rb.overAsked \/ rb.sz > rb.length - rb.consumed,
                    !.sawNonPositive = rb.sawNonPositive \/ n <= 0,
                    !.readAfter = rb.readAfter \/ rb.sawNonPositive,
                    !.ret = IF n < 0 THEN -1
                            ELSE IF sz > 0 THEN rb.ret ELSE rb.length,
                    !.pc = IF n < 0 \/ sz <= 0 THEN "done" ELSE "loop"]
    /\ UNCHANGED <<rest, sock, ncall>>
    /\ UNCHANGED <<protVars, rsaVars, epidVars>>

\* err: return ret;
RecvBody_Return ==
    /\ rb.pc = "done"
    /\ rb' = NoRecvBody
    /\ UNCHANGED <<rest, sock, ncall>>
    /\ UNCHANGED <<protVars, rsaVars, epidVars>>

\* ---- the connection: sdoConConnect, sdoConDisconnect ----

\* The connection handle: the session's phase ("none" before sdoConConnect,
\* "connected", "done" after the caller's sdoConDisconnect), whether a TLS
\* session is active, and how often mos_socketClose / sdo_ssl_close ran on it.
Sock(phase, ssl, closes, sslCloses) ==
    [phase |-> phase, ssl |-> ssl, closes |-> closes, sslCloses |-> sslCloses]

NoSock == Sock("none", FALSE, 0, 0)

\* The failures of sdoConConnect, in program order.
ConnectFailPoints ==
    {"ip_addr", "ip4addr_ntoa", "snprintf_s_i", "sdo_ssl_setup_connect",
     "mos_socketConnect"}

\* sdoConConnect (lines 154-193).  tls: the ssl argument is non-NULL.
sdoConConnect(tls, fp) ==
    CASE fp = "ip_addr" -> NoSock
      [] tls /\ fp \in {"ip4addr_ntoa", "snprintf_s_i", "sdo_ssl_setup_connect"} ->
            NoSock
      [] ~tls /\ fp = "mos_socketConnect" -> NoSock
      [] OTHER -> Sock("connected", tls, 0, 0)

\* sdoConDisconnect (lines 202-209).  ssl: the ssl argument is non-NULL.
sdoConDisconnect(s, ssl) ==
    [s EXCEPT !.closes = @ + 1,
              !.sslCloses = IF ssl THEN @ + 1 ELSE @]

\* ---- sdoConSendMessage (lines 336-452) ----

SendOut(ret, r, s, wire, nh, nb, reached) ==
    [ret |-> ret, rest |-> r, sock |-> s, wire |-> wire, hdrWritten |-> nh,
     bodyWritten |-> nb, reached |-> reached]

\* A write on the plain socket that failed: n <= 0 closes the connection,
\* 0 < n < len is a short write (lines 384-400, 420-435).
PlainWriteFailed(n, len) == n <= 0 \/ n < len

\* A write on the TLS session that failed (lines 377-380, 413-416).
TlsWriteFailed(n, len) == n < 0

\* What a failed write leaves of the connection.
AfterFailedWrite(s, ssl, n) ==
    IF ~ssl /\ n <= 0 THEN sdoConDisconnect(s, ssl) ELSE s

\* a: [protocolVersion, messageType, bufOk, length]; ssl: TLS is active;
\* nh, nb: the results of the header and the body write.
sdoConSendMessage(a, ssl, nh, nb, r0, s0) ==
    LET r1 == RestCtx(a.protocolVersion, a.messageType, a.length)
        c == constructRESTHeader(r1, REST_MAX_MSGHDR_SIZE)
        headerLen == strnlen_s(c.hdr, SDO_MAX_STR_SIZE)
        hdrFailed == IF ssl THEN TlsWriteFailed(nh, headerLen)
                     ELSE PlainWriteFailed(nh, headerLen)
        bodyFailed == IF ssl THEN TlsWriteFailed(nb, a.length)
                      ELSE PlainWriteFailed(nb, a.length)
        nhw == IF nh > 0 THEN nh ELSE 0
        nbw == IF nb > 0 THEN nb ELSE 0
    IN  IF ~a.bufOk \/ a.length = 0
        THEN SendOut(-1, r0, s0, <<>>, 0, 0, "args")
        ELSE IF ~c.ok
        THEN SendOut(-1, r1, s0, <<>>, 0, 0, "constructRESTHeader")
        ELSE IF headerLen = 0 \/ headerLen = SDO_MAX_STR_SIZE
        THEN SendOut(-1, r1, s0, c.hdr, 0, 0, "strnlen_s")
        ELSE IF hdrFailed
        THEN SendOut(-1, r1, AfterFailedWrite(s0, ssl, nh), c.hdr, nhw, 0, "header")
        ELSE IF bodyFailed
        THEN SendOut(-1, r1, AfterFailedWrite(s0, ssl, nb), c.hdr, nhw, nbw, "body")
        ELSE SendOut(nb, r1, s0, c.hdr, nhw, nbw, "sent")

\* ---- the calls the model makes ----

\* Longest arbitrary byte stream fed to sdoConRecvMsgHeader: long enough for
\* a line that does not fit the line buffer.
MaxStream == REST_MAX_MSGHDR_SIZE + 1

ProtVers == {1, 10}

MsgTypes == {2, 3}

SendArgs(v, t, bufOk, length) ==
    [protocolVersion |-> v, messageType |-> t, bufOk |-> bufOk, length |-> length]

NoSendArgs == SendArgs(0, 0, FALSE, 0)

\* Arguments of sdoConSendMessage: a missing buffer, an empty body, and the
\* messages with a body.
SendArgSet ==
    {SendArgs(1, 2, FALSE, 1), SendArgs(1, 2, TRUE, 0)}
    \cup {SendArgs(v, t, TRUE, l) : v \in ProtVers, t \in MsgTypes, l \in 1..MaxBody}

\* The header a peer writes for a message: what sdoConSendMessage puts on
\* the wire for it.
WireHeader(a) ==
    constructRESTHeader(RestCtx(a.protocolVersion, a.messageType, a.length),
                        REST_MAX_MSGHDR_SIZE)

\* The messages whose header can be constructed.
ValidMessages ==
    {a \in SendArgSet : a.bufOk /\ a.length # 0 /\ WireHeader(a).ok}

\* What arrives of a peer's header: all of it, or a part before the
\* connection breaks.
PeerStreams ==
    {[sent |-> a, stream |-> SubSeq(WireHeader(a).hdr, 1, k)] :
        a \in ValidMessages, k \in 0..(REST_MAX_MSGHDR_SIZE - 1)}

\* Arbitrary byte streams of text, carriage returns and newlines.
ArbStreams == UNION {[1..k -> {"a", CR, LF}] : k \in 0..MaxStream}

\* Runs of bytes that a peer may put into a header line: text, possibly
\* after a NUL byte.
Pads ==
    {<<f>> \o [i \in 1..k |-> "a"] : f \in {"a", NUL},
                                      k \in 0..REST_MAX_MSGHDR_SIZE}

\* A peer's header with a run of bytes inserted.
PaddedStreams ==
    {SubSeq(WireHeader(a).hdr, 1, p) \o pad
        \o SubSeq(WireHeader(a).hdr, p + 1, Len(WireHeader(a).hdr)) :
        a \in ValidMessages, p \in 0..(REST_MAX_MSGHDR_SIZE - 1), pad \in Pads}

HdrStreams ==
    ArbStreams \cup PaddedStreams \cup {ps.stream : ps \in PeerStreams}

NoHdrOut ==
    [ret |-> -1, end |-> "none", protocolVersion |-> NotStored,
     messageType |-> NotStored, msglen |-> NotStored, rest |-> InitRest,
     hdr |-> <<>>, pos |-> 1, tmpUsed |-> 0, hdrUsed |-> 0, readFailed |-> FALSE]

\* The record of a transport call: its arguments, the connection and REST
\* context before it, and its results.
NoNetCall ==
    [op |-> "none", a |-> NoSendArgs, ssl |-> FALSE, nh |-> 0, nb |-> 0,
     send |-> SendOut(-1, InitRest, NoSock, <<>>, 0, 0, "none"),
     preSock |-> NoSock, preRest |-> InitRest,
     stream |-> <<>>, eof |-> 0, argsOk |-> FALSE, sent |-> NoSendArgs,
     hdr |-> NoHdrOut]

Net_Connect ==
    /\ ncall.op = "none"
    /\ rb.pc = "idle"
    /\ sock.phase \in {"none", "done"}
    /\ \E tls \in BOOLEAN : \E fp \in ConnectFailPoints \cup {"none"} :
        /\ sock' = sdoConConnect(tls, fp)
        /\ ncall' = [NoNetCall EXCEPT !.op = "sdoConConnect", !.ssl = tls,
                                      !.preSock = sock, !.preRest = rest]
    /\ UNCHANGED <<rest, rb>>
    /\ UNCHANGED <<protVars, rsaVars, epidVars>>

\* Results of a write of len bytes.
WriteResults(len) == -1..len

Net_SendMessage ==
    /\ ncall.op = "none"
    /\ rb.pc = "idle"
    /\ sock.phase = "connected"
    /\ sock.closes < MaxCloses
    /\ \E a \in SendArgSet :
       \E nh \in WriteResults(Len(WireHeader(a).hdr)) :
       \E nb \in WriteResults(a.length) :
        LET r == sdoConSendMessage(a, sock.ssl, nh, nb, rest, sock)
        IN  /\ r.reached \in {"args", "constructRESTHeader", "strnlen_s"} =>
                    nh = 0 /\ nb = 0
            /\ r.reached = "header" => nb = 0
            /\ rest' = r.rest
            /\ sock' = r.sock
            /\ ncall' = [NoNetCall EXCEPT !.op = "sdoConSendMessage", !.a = a,
                                          !.ssl = sock.ssl, !.nh = nh, !.nb = nb,
                                          !.send = r, !.preSock = sock,
                                          !.preRest = rest]
    /\ UNCHANGED rb
    /\ UNCHANGED <<protVars, rsaVars, epidVars>>

\* sdoConRecvMsgHeader on a connection whose peer sends a header.
Net_RecvMsgHeader ==
    /\ ncall.op = "none"
    /\ rb.pc = "idle"
    /\ sock.phase = "connected"
    /\ \E ps \in PeerStreams : \E eof \in {0, -1} :
        LET r == sdoConRecvMsgHeader(ps.stream, eof, TRUE, rest)
        IN  /\ rest' = r.rest
            /\ ncall' = [NoNetCall EXCEPT !.op = "sdoConRecvMsgHeader",
                                          !.ssl = sock.ssl, !.stream = ps.stream,
                                          !.eof = eof, !.argsOk = TRUE,
                                          !.sent = ps.sent, !.hdr = r,
                                          !.preSock = sock, !.preRest = rest]
    /\ UNCHANGED <<sock, rb>>
    /\ UNCHANGED <<protVars, rsaVars, epidVars>>

\* The caller's sdoConDisconnect, which ends the session.
Net_Disconnect ==
    /\ ncall.op = "none"
    /\ rb.pc = "idle"
    /\ sock.phase = "connected"
    /\ sock' = [sdoConDisconnect(sock, sock.ssl) EXCEPT !.phase = "done"]
    /\ ncall' = [NoNetCall EXCEPT !.op = "sdoConDisconnect", !.ssl = sock.ssl,
                                  !.preSock = sock, !.preRest = rest]
    /\ UNCHANGED <<rest, rb>>
    /\ UNCHANGED <<protVars, rsaVars, epidVars>>

\* The caller takes the result of the call.
Net_Return ==
    /\ ncall.op # "none"
    /\ ncall' = NoNetCall
    /\ UNCHANGED <<rest, sock, rb>>
    /\ UNCHANGED <<protVars, rsaVars, epidVars>>

\* sdoConRecvMsgHeader on any byte stream, as the first call after
\* sdoConSetup.
Hdr_RecvMsgHeader ==
    /\ ncall.op = "none"
    /\ rest = InitRest
    /\ \E stream \in HdrStreams : \E eof \in {0, -1} : \E argsOk \in BOOLEAN :
        LET r == sdoConRecvMsgHeader(stream, eof, argsOk, rest)
        IN  /\ ~argsOk => stream = <<>> /\ eof = 0
            /\ rest' = r.rest
            /\ ncall' = [NoNetCall EXCEPT !.op = "sdoConRecvMsgHeader",
                                          !.stream = stream, !.eof = eof,
                                          !.argsOk = argsOk, !.hdr = r,
                                          !.preSock = sock, !.preRest = rest]
    /\ UNCHANGED <<sock, rb>>
    /\ UNCHANGED <<protVars, rsaVars, epidVars>>

\* After sdoConSetup: the REST context is initialised, nothing is connected.
InitNet ==
    /\ rest = InitRest
    /\ sock = NoSock
    /\ ncall = NoNetCall
    /\ rb = NoRecvBody

NextNet ==
    \/ Net_Connect
    \/ Net_SendMessage
    \/ Net_RecvMsgHeader
    \/ RecvBody_Call
    \/ RecvBody_Read
    \/ RecvBody_Return
    \/ Net_Disconnect
    \/ Net_Return

NextHdr ==
    \/ Hdr_RecvMsgHeader
    \/ Net_Return

\* ---- claims about the transport layer ----

\* C12: for every length > 0 and every sequence of positive read results,
\* sdoConRecvMsgBody returns length after consuming exactly length bytes of
\* the stream, never asks for more than the bytes still missing, and buf
\* holds the bytes in arrival order.
C12_RecvBodyExact ==
    (rb.bufOk /\ rb.length > 0 /\ ~rb.sawNonPositive) =>
        /\ ~rb.overAsked
        /\ rb.consumed <= rb.length
        /\ rb.pc = "done" =>
              /\ rb.ret = rb.length
              /\ rb.consumed = rb.length
              /\ rb.buf = [i \in 1..rb.length |-> i]

\* C12 witness: a body that arrived one byte per read.
C12_Witness ==
    /\ rb.pc = "done"
    /\ rb.length >= 2
    /\ rb.chunks = rb.length
    /\ rb.ret = rb.length

\* C13: once a read of sdoConRecvMsgBody has returned zero or a negative
\* value, the call has ended with -1 and has issued no further read.
C13_NonPositiveStops ==
    rb.sawNonPositive =>
        /\ rb.pc = "done"
        /\ rb.ret = -1
        /\ ~rb.readAfter

\* C14: if a single-byte read issued while receiving the header returns zero
\* or a negative value, sdoConRecvMsgHeader returns -1 and stores neither
\* *protocolVersion nor *messageType.
C14_HeaderReadFailure ==
    (ncall.op = "sdoConRecvMsgHeader" /\ ncall.hdr.readFailed) =>
        /\ ncall.hdr.ret = -1
        /\ ~ncall.hdr.protocolVersion.stored
        /\ ~ncall.hdr.messageType.stored

\* C14 witness: the read fails with 0 after a complete header line arrived.
C14_Witness ==
    /\ ncall.op = "sdoConRecvMsgHeader"
    /\ ncall.hdr.readFailed
    /\ ncall.eof = 0
    /\ ncall.hdr.hdr # <<>>
    /\ ncall.hdr.ret = -1

\* The complete lines of a text, without their newlines.
RawLines(text) == SubSeq(Split(text, LF), 1, Len(Split(text, LF)) - 1)

\* A line without its optional carriage return.
LineContent(line) ==
    IF Len(line) >= 1 /\ line[Len(line)] = CR
    THEN SubSeq(line, 1, Len(line) - 1) ELSE line

\* The bytes that lines take when each is followed by one newline.
RECURSIVE TextSize(_)
TextSize(lines) ==
    IF lines = <<>> THEN 0
    ELSE Len(LineContent(Head(lines))) + 1 + TextSize(Tail(lines))

\* The lines sdoConRecvMsgHeader read in the last call.
LinesRead == RawLines(SubSeq(ncall.stream, 1, ncall.hdr.pos - 1))

\* C15: sdoConRecvMsgHeader never writes past the end of its line buffer or
\* its header buffer (REST_MAX_MSGHDR_SIZE bytes each, NUL included), and it
\* returns -1 whenever a line it read does not fit in the line buffer or the
\* lines read before the last one, each followed by one newline, do not fit
\* in the header buffer.
C15_BoundedHeader ==
    ncall.op = "sdoConRecvMsgHeader" =>
        /\ ncall.hdr.tmpUsed <= REST_MAX_MSGHDR_SIZE
        /\ ncall.hdr.hdrUsed <= REST_MAX_MSGHDR_SIZE
        /\ (\/ \E i \in 1..Len(LinesRead) :
                    Len(LineContent(LinesRead[i])) + 1 > REST_MAX_MSGHDR_SIZE
            \/ TextSize(SubSeq(LinesRead, 1, Len(LinesRead) - 1)) + 1
                    > REST_MAX_MSGHDR_SIZE)
              => ncall.hdr.ret = -1

\* The last call was sdoConSendMessage and it issued the header write / the
\* body write.
HeaderWriteIssued ==
    ncall.op = "sdoConSendMessage" /\ ncall.send.reached \in {"header", "body", "sent"}

BodyWriteIssued ==
    ncall.op = "sdoConSendMessage" /\ ncall.send.reached \in {"body", "sent"}

\* C16: sdoConSendMessage returns a non-negative value only if header and
\* body were written in full; a header or body write that writes fewer
\* bytes than requested makes it return -1, with and without TLS.
C16_ShortWriteFails ==
    /\ (ncall.op = "sdoConSendMessage" /\ ncall.send.ret >= 0) =>
            /\ ncall.send.hdrWritten = Len(ncall.send.wire)
            /\ ncall.send.bodyWritten = ncall.a.length
    /\ (HeaderWriteIssued /\ ncall.nh < Len(ncall.send.wire)) => ncall.send.ret = -1
    /\ (BodyWriteIssued /\ ncall.nb < ncall.a.length) => ncall.send.ret = -1

\* C17: when a header or body write of sdoConSendMessage wrote some but not
\* all of the bytes requested, the connection has been closed when
\* sdoConSendMessage returns.
C17_ShortWriteCloses ==
    (\/ HeaderWriteIssued /\ 0 < ncall.nh /\ ncall.nh < Len(ncall.send.wire)
     \/ BodyWriteIssued /\ 0 < ncall.nb /\ ncall.nb < ncall.a.length)
        => sock.closes > ncall.preSock.closes

\* C18: after a session's sdoConConnect, any calls with any outcomes, and
\* then its one sdoConDisconnect, the socket of the handle has been closed
\* exactly once.
C18_ClosedExactlyOnce ==
    ncall.op = "sdoConDisconnect" => sock.closes = 1

C26_HeaderBeforeBody ==
    /\ BodyWriteIssued => ncall.nh = Len(ncall.send.wire)
    /\ (HeaderWriteIssued /\ ncall.nh < Len(ncall.send.wire)) =>
            ncall.send.bodyWritten = 0

\* Position in the stream of the first byte of the i-th line read.
RECURSIVE LineStart(_)
LineStart(i) ==
    IF i = 1 THEN 1 ELSE LineStart(i - 1) + Len(LinesRead[i - 1]) + 1

\* The header text made of the contents of lines, one newline after each.
RECURSIVE JoinLines(_)
JoinLines(lines) ==
    IF lines = <<>> THEN <<>>
    ELSE LineContent(Head(lines)) \o <<LF>> \o JoinLines(Tail(lines))

\* A line, its newline and the terminating NUL fit the line buffer.
LineFits(line) == Len(line) + 2 <= REST_MAX_MSGHDR_SIZE

\* C27: for every line that ends in a newline (optionally preceded by a
\* carriage return) and fits the line buffer, a line that fills it exactly
\* included, readUntilNewLine returns the line's content without the
\* newline and the optional carriage return, and the header buffer
\* accumulates these contents with no terminator read from the stream.
C27_TerminatorStripped ==
    (ncall.op = "sdoConRecvMsgHeader" /\ ncall.argsOk) =>
        /\ \A i \in 1..Len(LinesRead) :
              LineFits(LinesRead[i]) =>
                 LET r == readUntilNewLine(ncall.stream, LineStart(i), ncall.eof,
                                           REST_MAX_MSGHDR_SIZE)
                 IN  /\ r.ok
                     /\ r.out = LineContent(LinesRead[i])
        /\ (/\ ncall.hdr.end = "separator"
            /\ \A i \in 1..Len(ncall.stream) : ncall.stream[i] # NUL
            /\ \A i \in 1..Len(LinesRead) : LineFits(LinesRead[i])) =>
              ncall.hdr.hdr = JoinLines(SubSeq(LinesRead, 1, Len(LinesRead) - 1))

\* A line whose first character, once the terminator is stripped, is the
\* header/body separator.
IsSeparatorLine(line) ==
    FirstByte(LineContent(line)) = getRESTHdrBodySeparator

\* C28: when sdoConRecvMsgHeader returns 0 it has consumed the stream up to
\* and including the newline of the first line whose first character is the
\* header/body separator, and no byte after it, so that the next read
\* (sdoConRecvMsgBody) starts at the first byte of the body.
C28_ConsumesHeaderOnly ==
    (ncall.op = "sdoConRecvMsgHeader" /\ ncall.hdr.ret = 0) =>
        /\ ncall.hdr.pos >= 2
        /\ ncall.hdr.pos <= Len(ncall.stream) + 1
        /\ ncall.stream[ncall.hdr.pos - 1] = LF
        /\ IsSeparatorLine(LinesRead[Len(LinesRead)])
        /\ \A i \in 1..(Len(LinesRead) - 1) : ~IsSeparatorLine(LinesRead[i])
        /\ LineStart(Len(LinesRead)) + Len(LinesRead[Len(LinesRead)])
              = ncall.hdr.pos - 1

\* C28 witness: a header was accepted and the bytes that follow its
\* separator line are still in the stream.
C28_Witness ==
    /\ ncall.op = "sdoConRecvMsgHeader"
    /\ ncall.hdr.ret = 0
    /\ Len(LinesRead) = 2
    /\ ncall.hdr.pos + 2 <= Len(ncall.stream)
    /\ ncall.hdr.msglen.val >= 2


(***************************************************************************)
(*                        S P E C I F I C A T I O N S                      *)
(***************************************************************************)

\* Each specification starts its own component in every initial state it has
\* and holds the other components in one.
IdleProt ==
    /\ InitProt
    /\ ~tpm

IdleEpid ==
    /\ InitEpid
    /\ build = "SDK"

InitProtSpec ==
    /\ InitProt
    /\ InitRSA
    /\ IdleEpid
    /\ InitNet

InitRSASpec ==
    /\ IdleProt
    /\ InitRSA
    /\ IdleEpid
    /\ InitNet

InitEpidSpec ==
    /\ IdleProt
    /\ InitRSA
    /\ InitEpid
    /\ InitNet

InitNetSpec ==
    /\ IdleProt
    /\ InitRSA
    /\ IdleEpid
    /\ InitNet

SpecProt == InitProtSpec /\ [][NextProt]_vars

SpecRSA == InitRSASpec /\ [][NextRSA]_vars

SpecEpid == InitEpidSpec /\ [][NextEpid]_vars

SpecNet == InitNetSpec /\ [][NextNet]_vars

SpecHdr == InitNetSpec /\ [][NextHdr]_vars

=============================================================================
